---- MODULE Spec2Model ----
(***************************************************************************)
(* Model of the Streamlit prediction dashboard, src/frontend/app.py.       *)
(*                                                                         *)
(* The script is executed top to bottom on every user event (a "run").    *)
(* Between runs only the widget state survives: the uploaded file and,    *)
(* for the run a click triggers, the button's value.  Every other name of *)
(* the script (df, missing_cols, response, predictions, ...) is rebuilt   *)
(* by each run.  pc is the position of the current run in the script.     *)
(***************************************************************************)
EXTENDS Integers, Sequences, FiniteSets, TLC

\* ------------------------------------------------------------------ bounds
\* Largest number of data rows of an uploaded file.
MaxRows == 2

\* ---------------------------------------------------------- option values
None == <<>>
Some(x) == <<x>>
IsNone(o) == o = <<>>
IsSome(o) == o # <<>>
The(o) == o[1]

\* ------------------------------------------------------------ sequences
Range(s) == {s[i] : i \in 1..Len(s)}

RECURSIVE Filter(_, _)
\* [x for x in s if x not in ban], the comprehension of lines 196-197
Filter(s, ban) ==
    IF s = <<>> THEN <<>>
    ELSE IF Head(s) \in ban THEN Filter(Tail(s), ban)
         ELSE <<Head(s)>> \o Filter(Tail(s), ban)

\* position of the first occurrence of x in s, 0 when absent
IndexOf(s, x) ==
    IF x \in Range(s) THEN CHOOSE i \in 1..Len(s) : s[i] = x /\ \A j \in 1..(i - 1) : s[j] # x
    ELSE 0

\* ------------------------------------------------------------ the schema
expected_cols ==
    << "trf", "age", "gndr", "tenure", "age_dev", "dev_man", "device_os_name",
       "dev_num", "is_dualsim", "simcard_type", "region" >>

\* ------------------------------------------------------ uploaded files
\* Column names a file may carry besides the required ones.
ExtraNames == {"id", "Prediction", "Timestamp"}

\* The header of a file: the schema with column `drop` left out (0: none)
\* and the extra column `extra` put in front or at the end ("": none).
RemoveAt(s, i) == IF i = 0 THEN s ELSE SubSeq(s, 1, i - 1) \o SubSeq(s, i + 1, Len(s))
HeaderOf(drop, extra, front) ==
    LET base == RemoveAt(expected_cols, drop)
    IN  IF extra = "" THEN base
        ELSE IF front THEN <<extra>> \o base ELSE base \o <<extra>>

Headers ==
    {HeaderOf(d, e, FALSE) : d \in {0, 1}, e \in ExtraNames \cup {""}} \cup {HeaderOf(0, "id", TRUE)}

\* An uploaded file, by what the script can observe of its bytes: whether
\* they decode as UTF-8, whether the decoded text parses as CSV, and, when
\* it parses, the header and the number of data rows.
FileNames == {"a.csv"}
GoodFiles ==
    [name : FileNames, utf8 : BOOLEAN, parses : {TRUE}, columns : Headers, rows : 0..MaxRows]
BadFiles ==
    [name : FileNames, utf8 : BOOLEAN, parses : {FALSE}, columns : {<<>>}, rows : {0}]
Files == GoodFiles \cup BadFiles

VARIABLES
    uploaded_file,   \* widget state: None or Some(file)
    clicked,         \* widget state: the button's value in the current run
    pc,              \* position of the current run
    sidebar,         \* what the health probe displayed
    shown,           \* messages displayed in the main area by this run
    df,              \* None or Some([columns, rows])
    missing_cols,
    extra_cols,
    button_shown,    \* the "Get Predictions" button was rendered by this run
    posts,           \* POST /predict requests issued by this run
    response,        \* None or Some(response)
    predictions,
    num_predictions,
    error_msg,       \* None or Some(what the failure message carries)
    results_df,      \* None or Some([columns, rows])
    overview,        \* None or Some(statistics of the overview tab)
    is_numeric,      \* None or Some(BOOLEAN), the visualization tab's probe
    value_counts,    \* None or Some(frequency table)
    csv_string,      \* None or Some(CSV export)
    json_data        \* None or Some(JSON export)

widgets == <<uploaded_file, clicked>>
ingestVars == <<df, missing_cols, extra_cols, button_shown>>
requestVars == <<posts, response, predictions, num_predictions, error_msg>>
resultVars == <<results_df, overview, is_numeric, value_counts, csv_string, json_data>>
vars ==
    <<uploaded_file, clicked, pc, sidebar, shown, df, missing_cols, extra_cols, button_shown,
      posts, response, predictions, num_predictions, error_msg, results_df, overview,
      is_numeric, value_counts, csv_string, json_data>>

\* A run starts with a fresh script namespace.
FreshRun ==
    /\ pc = "sidebar"
    /\ sidebar = "none"
    /\ shown = {}
    /\ df = None
    /\ missing_cols = <<>>
    /\ extra_cols = <<>>
    /\ button_shown = FALSE
    /\ posts = 0
    /\ response = None
    /\ predictions = <<>>
    /\ num_predictions = 0
    /\ error_msg = None
    /\ results_df = None
    /\ overview = None
    /\ is_numeric = None
    /\ value_counts = None
    /\ csv_string = None
    /\ json_data = None

\* A run that starts from what the previous run left, as a script that kept
\* its results in st.session_state would.
StartRunKeepingResults ==
    /\ pc' = "sidebar"
    /\ sidebar' = "none"
    /\ shown' = {}
    /\ df' = None
    /\ missing_cols' = <<>>
    /\ extra_cols' = <<>>
    /\ button_shown' = FALSE
    /\ posts' = 0
    /\ response' = None
    /\ num_predictions' = 0
    /\ error_msg' = None
    /\ UNCHANGED <<predictions, results_df, overview, is_numeric, value_counts, csv_string,
                   json_data>>

\* The same, as the step that begins a run.
StartRun ==
    /\ pc' = "sidebar"
    /\ sidebar' = "none"
    /\ shown' = {}
    /\ df' = None
    /\ missing_cols' = <<>>
    /\ extra_cols' = <<>>
    /\ button_shown' = FALSE
    /\ posts' = 0
    /\ response' = None
    /\ predictions' = <<>>
    /\ num_predictions' = 0
    /\ error_msg' = None
    /\ results_df' = None
    /\ overview' = None
    /\ is_numeric' = None
    /\ value_counts' = None
    /\ csv_string' = None
    /\ json_data' = None

\* The session opens: no file uploaded, the first run is about to start.
Init ==
    /\ uploaded_file = None
    /\ clicked = FALSE
    /\ FreshRun

\* The run is over: the script reached its last line, or st.stop() or an
\* uncaught exception ended it.
RunOver == pc \in {"done", "stopped", "crashed"}

\* --------------------------------------------------------- user events
\* Streamlit reruns the script on every widget event.
Upload ==
    /\ RunOver
    /\ \E f \in Files : uploaded_file' = Some(f)
    /\ clicked' = FALSE
    /\ StartRun

RemoveFile ==
    /\ RunOver
    /\ IsSome(uploaded_file)
    /\ uploaded_file' = None
    /\ clicked' = FALSE
    /\ StartRun

\* The button exists only in a run that rendered it (line 282).
ClickPredict ==
    /\ RunOver
    /\ button_shown
    /\ clicked' = TRUE
    /\ UNCHANGED uploaded_file
    /\ StartRun

\* Any other widget (the settings of lines 128-130) changes.
ChangeSetting ==
    /\ RunOver
    /\ clicked' = FALSE
    /\ UNCHANGED uploaded_file
    /\ StartRun

\* A download button is pressed (lines 539-545, 566-572): the browser gets
\* the data the finished run built, and the script is rerun like for any
\* other widget; st.button is false in that run.
ClickDownload ==
    /\ RunOver
    /\ IsSome(csv_string)
    /\ IsSome(json_data)
    /\ clicked' = FALSE
    /\ UNCHANGED uploaded_file
    /\ StartRun

\* ------------------------------------------------ the sidebar (lines 88-130)
\* requests.get(".../health", timeout=5), lines 92-103.  The outcome of the
\* probe is the environment's choice:
\*   "unreachable"  the GET raises a RequestException (no route, timeout)
\*   "non_200"      a response whose status is not 200
\*   "not_json"     200, the body is not JSON
\*   "not_object"   200, the body is JSON but no object (a list, a string)
\*   "loaded", "not_loaded"   200, a JSON object; model_loaded truthy, or
\*                  falsy or absent
HealthOutcomes == {"unreachable", "non_200", "not_json", "not_object", "loaded", "not_loaded"}

\* The class of the exception health_response.json() / response.json() raises
\* on a body that is not JSON depends on the installed requests: its
\* JSONDecodeError is a RequestException from 2.27 on, a plain ValueError
\* before.
JsonErrorClasses == {"RequestException", "ValueError"}

\* What the sidebar displays and where the run goes, for a probe outcome h
\* and, for a body that is not JSON, the exception class c.
HealthDisplay(h, c) ==
    CASE h = "unreachable" -> "cannot_connect"
      [] h = "non_200" -> "health_failed"
      [] h = "not_json" -> IF c = "RequestException" THEN "cannot_connect" ELSE "none"
      [] h = "not_object" -> "healthy"
      [] h = "loaded" -> "healthy_loaded"
      [] h = "not_loaded" -> "healthy_not_loaded"

\* Only requests.RequestException is caught (line 102): the ValueError of a
\* body that is not JSON and the AttributeError of health_data.get on a
\* value that is no dict leave the script.
HealthRaisesUncaught(h, c) ==
    \/ h = "not_json" /\ c = "ValueError"
    \/ h = "not_object"

HealthCheck ==
    /\ pc = "sidebar"
    /\ \E h \in HealthOutcomes, c \in JsonErrorClasses :
          /\ sidebar' = HealthDisplay(h, c)
          /\ pc' = IF HealthRaisesUncaught(h, c) THEN "crashed" ELSE "upload"
    /\ UNCHANGED <<widgets, shown, ingestVars, requestVars, resultVars>>

\* -------------------------------------------- the upload (lines 133-190)
\* No file: the welcome section and the footer (lines 149-150, 680-728).
Welcome ==
    /\ pc = "upload"
    /\ IsNone(uploaded_file)
    /\ pc' = "done"
    /\ UNCHANGED <<widgets, sidebar, shown, ingestVars, requestVars, resultVars>>

\* file_content.decode("utf-8") raises UnicodeDecodeError on bytes that are
\* not UTF-8; decode("latin-1") accepts every byte string (lines 162, 172).
EncodingUsed(f) == IF f.utf8 THEN "utf-8" ELSE "latin-1"

\* The message of a failed pd.read_csv: line 182 on the UTF-8 path, line 179
\* on the Latin-1 path.
ParseErrorShown(f) == IF EncodingUsed(f) = "utf-8" THEN "parse_error" ELSE "encoding_error"

\* The warning issued outside the except branch, on both paths.
IngestWarningsAlways(f) == {"latin1_warning"}

\* The warning of line 177.
IngestWarnings(f) == IF EncodingUsed(f) = "latin-1" THEN {"latin1_warning"} ELSE {}

\* pd.read_csv(..., dtype=str, na_filter=False): the frame of a file that parses.
ReadCsv(f) == [columns |-> f.columns, rows |-> f.rows]

\* st.stop() forgotten: the script goes on after the error message.
AfterIngestNoStop(f) == "validate"

\* A failed parse ends the run with st.stop() (lines 180, 184), whose
\* StopException is no Exception and passes the handler of line 670.
AfterIngest(f) == IF f.parses THEN "validate" ELSE "stopped"

\* Lines 153-184: read the bytes, decode, parse; st.stop() on a parse error.
Ingest ==
    /\ pc = "upload"
    /\ IsSome(uploaded_file)
    /\ LET f == The(uploaded_file)
       IN  IF f.parses
           THEN /\ df' = Some(ReadCsv(f))
                /\ shown' = shown \cup IngestWarnings(f)
           ELSE /\ df' = df
                /\ shown' = shown \cup {ParseErrorShown(f)}
    /\ pc' = AfterIngest(The(uploaded_file))
    /\ UNCHANGED <<widgets, sidebar, missing_cols, extra_cols, button_shown, requestVars, resultVars>>

\* ------------------------------------------ validation (lines 192-226)
\* The two comprehensions confused: the frame's columns filtered by the schema.
MissingColsSwapped(columns) == Filter(columns, Range(expected_cols))

\* missing_cols = [col for col in expected_cols if col not in df.columns]
MissingCols(columns) == Filter(expected_cols, Range(columns))
\* extra_cols = [col for col in df.columns if col not in expected_cols]
ExtraCols(columns) == Filter(columns, Range(expected_cols))

Validate ==
    /\ pc = "validate"
    /\ missing_cols' = MissingCols(The(df).columns)
    /\ extra_cols' = ExtraCols(The(df).columns)
    /\ pc' = "gate"
    /\ UNCHANGED <<widgets, sidebar, shown, df, button_shown, requestVars, resultVars>>

\* --------------------------------- the prediction gate (lines 279-284, 611-615)
\* The gate left out: the button is rendered whatever the report says.
ButtonRenderedAlways(missing) == TRUE

\* if not missing_cols: the button is rendered
ButtonRendered(missing) == missing = <<>>

Gate ==
    /\ pc = "gate"
    /\ IF ButtonRendered(missing_cols)
       THEN /\ button_shown' = TRUE
            /\ shown' = shown
            /\ pc' = IF clicked THEN "post" ELSE "tail"
       ELSE /\ button_shown' = FALSE
            /\ shown' = shown \cup {"missing_warning"}
            /\ pc' = "tail"
    /\ UNCHANGED <<widgets, sidebar, df, missing_cols, extra_cols, requestVars, resultVars>>

\* ------------------------------------ the prediction request (lines 289-331)
\* A prediction value of the response's array: a JSON number or a JSON
\* string, by its text.  1 and "1" are different values.
PredValues ==
    { [kind |-> "int", text |-> "0"], [kind |-> "int", text |-> "1"],
      [kind |-> "str", text |-> "1"], [kind |-> "str", text |-> "a"],
      [kind |-> "str", text |-> "b"] }

PredSeqs == UNION {[1..n -> PredValues] : n \in 0..(MaxRows + 1)}

\* What the backend may answer: a status and a body that is not JSON, JSON
\* but no object, or a JSON object with or without each expected field.
StatusCodes == {200, 500}
OkObjects ==
    { r \in [status : {200}, body : {"object"}, has_predictions : BOOLEAN, has_num : BOOLEAN,
             has_detail : {FALSE}, predictions : PredSeqs] :
        ~r.has_predictions => r.predictions = <<>> }
ErrorObjects ==
    [status : StatusCodes \ {200}, body : {"object"}, has_predictions : {FALSE}, has_num : {FALSE},
     has_detail : BOOLEAN, predictions : {<<>>}]
OtherBodies ==
    [status : StatusCodes, body : {"not_json", "not_object"}, has_predictions : {FALSE},
     has_num : {FALSE}, has_detail : {FALSE}, predictions : {<<>>}]
Responses == OkObjects \cup ErrorObjects \cup OtherBodies

\* The handlers in the wrong order: except Exception catches everything.
HandlerMessageGeneric(class) == "unexpected_error"

\* The handler an exception raised inside the try of line 289 reaches:
\* except requests.RequestException (601-605), else except Exception (607-610).
HandlerMessage(class) ==
    IF class = "RequestException" THEN "connection_error" ELSE "unexpected_error"

\* requests.post(".../predict", files=files, timeout=30), lines 296-307: one
\* request; it returns a response or raises a RequestException (unreachable
\* host, timeout), which ends the try block.
Post ==
    /\ pc = "post"
    /\ posts' = posts + 1
    /\ \/ \E r \in Responses :
             /\ response' = Some(r)
             /\ shown' = shown
             /\ pc' = "response"
       \/ /\ response' = None
          /\ shown' = shown \cup {HandlerMessage("RequestException")}
          /\ pc' = "tail"
    /\ UNCHANGED <<widgets, sidebar, ingestVars, predictions, num_predictions, error_msg, resultVars>>

\* result.get("predictions", []) and result.get("num_predictions", 0), lines 316-317
GetPredictions(r) == IF r.has_predictions THEN r.predictions ELSE <<>>
GetNumPredictions(r) == IF r.has_num THEN Len(r.predictions) ELSE 0

\* Lines 582-587: error_msg = response.text, replaced by the detail field
\* when the body is a JSON object; a body that is not JSON raises the
\* ValueError caught at line 586.
ErrorMsg(r) == IF r.body = "object" /\ r.has_detail THEN "detail" ELSE "text"

\* .get on a JSON value that is no object raises AttributeError (lines 316, 585).
GetRaises(r) == r.body = "not_object"

\* Lines 314-331 and 578-599: the status test and what follows it up to the
\* first message.
HandleResponse ==
    /\ pc = "response"
    /\ LET r == The(response)
       IN  IF r.status = 200
           THEN \/ /\ r.body = "not_json"
                   /\ \E c \in JsonErrorClasses : shown' = shown \cup {HandlerMessage(c)}
                   /\ pc' = "tail"
                   /\ UNCHANGED <<predictions, num_predictions, error_msg>>
                \/ /\ r.body # "not_json"
                   /\ GetRaises(r)
                   /\ shown' = shown \cup {HandlerMessage("AttributeError")}
                   /\ pc' = "tail"
                   /\ UNCHANGED <<predictions, num_predictions, error_msg>>
                \/ /\ r.body # "not_json"
                   /\ ~GetRaises(r)
                   /\ predictions' = GetPredictions(r)
                   /\ num_predictions' = GetNumPredictions(r)
                   /\ shown' = shown \cup {"success"}
                   /\ pc' = "overview"
                   /\ UNCHANGED error_msg
           ELSE /\ error_msg' = Some(ErrorMsg(r))
                /\ shown' = shown \cup
                     {IF r.body # "not_json" /\ GetRaises(r)
                      THEN HandlerMessage("AttributeError") ELSE "prediction_failed"}
                /\ pc' = "tail"
                /\ UNCHANGED <<predictions, num_predictions>>
    /\ UNCHANGED <<widgets, sidebar, ingestVars, posts, response, resultVars>>

\* ------------------------------------------- the results (lines 342-576)
Count(preds, v) == Cardinality({i \in 1..Len(preds) : preds[i] = v})
MaxCount(preds) == CHOOSE c \in 0..Len(preds) :
    /\ \A v \in Range(preds) : Count(preds, v) <= c
    /\ (preds # <<>>) => \E v \in Range(preds) : Count(preds, v) = c
MostFrequent(preds) == {v \in Range(preds) : Count(preds, v) = MaxCount(preds)}

\* The order of the texts (code points), which is also the order of the numbers.
TextOrder == <<"0", "1", "a", "b">>
Rank(text) == IndexOf(TextOrder, text)
Least(vs) == CHOOSE v \in vs : \A w \in vs : Rank(v.text) <= Rank(w.text)

\* pd.to_numeric(..., errors="coerce"): a number stays, a string is parsed,
\* what does not parse becomes NaN.
Coerces(v) == v.text \in {"0", "1"}
NumberOf(v) == Rank(v.text) - 1

\* df[name] = values: an existing column is replaced in place, a new one is
\* appended (lines 345, 530, 531).
AssignColumn(columns, name) == IF name \in Range(columns) THEN columns ELSE Append(columns, name)

\* A list whose length is not the frame's raises ValueError (line 345).
AssignRaises(frame, values) == Len(values) # frame.rows

\* pd.Series(predictions).dtype: int64 for JSON integers, object as soon as
\* one value is a string.  For an empty list it is object from pandas 2.0 on
\* and float64 before.
Dtypes(preds) ==
    IF preds = <<>> THEN {"object", "float64"}
    ELSE IF \A i \in 1..Len(preds) : preds[i].kind = "int" THEN {"int64"} ELSE {"object"}

\* pred_series.dtype in ["int64", "float64"], lines 363, 373, 386
OverviewNumeric(dtype) == dtype \in {"int64", "float64"}

\* f"{x:.2f}" of a number, as hundredths; NaN prints as "nan".
NaN == [nan |-> TRUE, hundredths |-> 0]
Fixed2(num, den) == [nan |-> FALSE, hundredths |-> (200 * num + den) \div (2 * den)]
RECURSIVE Sum(_)
Sum(preds) == IF preds = <<>> THEN 0 ELSE NumberOf(Head(preds)) + Sum(Tail(preds))
Mean(preds) == IF preds = <<>> THEN NaN ELSE Fixed2(Sum(preds), Len(preds))
Min(preds) ==
    IF preds = <<>> THEN NaN
    ELSE Fixed2(CHOOSE n \in {NumberOf(v) : v \in Range(preds)} :
                    \A v \in Range(preds) : n <= NumberOf(v), 1)
Max(preds) ==
    IF preds = <<>> THEN NaN
    ELSE Fixed2(CHOOSE n \in {NumberOf(v) : v \in Range(preds)} :
                    \A v \in Range(preds) : n >= NumberOf(v), 1)

\* pred_series.mode().iloc[0] if not pred_series.empty else "N/A" (378-382).
\* mode() returns the most frequent values sorted; values that do not
\* compare (a number and a string) are left unsorted, in an order the
\* pandas build decides.
NotApplicable == [kind |-> "str", text |-> "N/A"]
SameKind(vs) == \A v, w \in vs : v.kind = w.kind
ModeCandidates(preds) ==
    IF preds = <<>> THEN {NotApplicable}
    ELSE IF SameKind(MostFrequent(preds)) THEN {Least(MostFrequent(preds))}
         ELSE MostFrequent(preds)

\* The statistics of the overview tab, lines 354-391.
OverviewStats(preds, dtype, mode) ==
    IF OverviewNumeric(dtype)
    THEN [numeric |-> TRUE, total |-> Len(preds), mean |-> Some(Mean(preds)),
          min |-> Some(Min(preds)), max |-> Some(Max(preds)),
          unique |-> None, most_common |-> None, dtype |-> dtype]
    ELSE [numeric |-> FALSE, total |-> Len(preds), mean |-> None, min |-> None, max |-> None,
          unique |-> Some(Cardinality(Range(preds))), most_common |-> Some(mode.text),
          dtype |-> dtype]

\* The first tab, lines 342-391: the joined frame, then the statistics.
Overview ==
    /\ pc = "overview"
    /\ IF AssignRaises(The(df), predictions)
       THEN /\ shown' = shown \cup {HandlerMessage("ValueError")}
            /\ pc' = "tail"
            /\ UNCHANGED <<results_df, overview>>
       ELSE /\ results_df' =
                 Some([columns |-> AssignColumn(The(df).columns, "Prediction"), rows |-> The(df).rows])
            /\ \E d \in Dtypes(predictions), m \in ModeCandidates(predictions) :
                   overview' = Some(OverviewStats(predictions, d, m))
            /\ shown' = shown
            /\ pc' = "visualization"
    /\ UNCHANGED <<widgets, sidebar, ingestVars, requestVars, is_numeric, value_counts,
                   csv_string, json_data>>

\* is_numeric = not pred_numeric.isnull().all(), lines 399-402: true as soon
\* as one value coerces; .all() of an empty series is True.
IsNumeric(preds) == \E i \in 1..Len(preds) : Coerces(preds[i])

\* The distinct values in the order of their first occurrence.
RECURSIVE Distinct(_)
Distinct(preds) ==
    IF preds = <<>> THEN <<>>
    ELSE <<Head(preds)>> \o Distinct(Filter(Tail(preds), {Head(preds)}))

\* A stable insertion of v into vs, ordered by descending count in preds:
\* value_counts() sorts the counts of the distinct values, taken in the
\* order of first occurrence, and the sort keeps equal counts in place for
\* the few distinct values of a table.
RECURSIVE InsertByCount(_, _, _)
InsertByCount(vs, v, preds) ==
    IF vs = <<>> THEN <<v>>
    ELSE IF Count(preds, Head(vs)) >= Count(preds, v)
         THEN <<Head(vs)>> \o InsertByCount(Tail(vs), v, preds)
         ELSE <<v>> \o vs
RECURSIVE SortByCount(_, _)
SortByCount(vs, preds) ==
    IF vs = <<>> THEN <<>>
    ELSE InsertByCount(SortByCount(SubSeq(vs, 1, Len(vs) - 1), preds), vs[Len(vs)], preds)

\* pred_series.value_counts() (line 459) with the percentage column of
\* lines 512-520, (count / len(predictions) * 100).round(2), in hundredths.
ValueCounts(preds) ==
    LET order == SortByCount(Distinct(preds), preds)
    IN  [i \in 1..Len(order) |->
            [value |-> order[i], count |-> Count(preds, order[i]),
             percentage |-> Fixed2(100 * Count(preds, order[i]), Len(preds)).hundredths]]

\* The second tab, lines 393-525.  value_counts is assigned in the else
\* branch only (line 459); the table of line 512 reads it in both, which
\* raises NameError when is_numeric is true.
Visualization ==
    /\ pc = "visualization"
    /\ is_numeric' = Some(IsNumeric(predictions))
    /\ IF IsNumeric(predictions)
       THEN /\ shown' = shown \cup {HandlerMessage("NameError")}
            /\ pc' = "tail"
            /\ UNCHANGED value_counts
       ELSE /\ value_counts' = Some(ValueCounts(predictions))
            /\ shown' = shown
            /\ pc' = "download"
    /\ UNCHANGED <<widgets, sidebar, ingestVars, requestVars, results_df, overview,
                   csv_string, json_data>>

\* Where the cells of a column of the exported frame come from.
CellSource(name) ==
    IF name = "Timestamp" THEN "timestamp" ELSE IF name = "Prediction" THEN "predictions" ELSE "dataset"

\* Lines 529-537: the frame with Prediction, then Timestamp, written as CSV.
BuildCsv(frame, preds) ==
    LET header == AssignColumn(AssignColumn(frame.columns, "Prediction"), "Timestamp")
    IN  [header |-> header, cells |-> [i \in 1..Len(header) |-> CellSource(header[i])],
         rows |-> frame.rows, predictions |-> preds]

\* max(set(predictions), key=predictions.count) if predictions else None
\* (558-562): the first of the most frequent values in the iteration order
\* of the set.  Small integers iterate in ascending order; where a string
\* falls depends on its hash, which differs from process to process.
Null == [kind |-> "null", text |-> "null"]
JsonModeCandidates(preds) ==
    IF preds = <<>> THEN {Null}
    ELSE LET top == MostFrequent(preds)
             ints == {v \in top : v.kind = "int"}
         IN  {v \in top : v.kind = "str"} \cup (IF ints = {} THEN {} ELSE {Least(ints)})

\* The name given to the upload in the request (line 297) used in place of
\* uploaded_file.name.
BuildJsonFixedName(file, preds, mode) ==
    [metadata |-> [total_predictions |-> Len(preds), model_version |-> "xgb_model",
                   file_name |-> "uploaded_file.csv"],
     predictions |-> preds,
     summary_statistics |-> [unique_values |-> Cardinality(Range(preds)), most_common |-> mode]]

\* Lines 548-564.
BuildJson(file, preds, mode) ==
    [metadata |-> [total_predictions |-> Len(preds), model_version |-> "xgb_model",
                   file_name |-> file.name],
     predictions |-> preds,
     summary_statistics |-> [unique_values |-> Cardinality(Range(preds)), most_common |-> mode]]

\* The third tab, lines 527-576.
Download ==
    /\ pc = "download"
    /\ csv_string' = Some(BuildCsv(The(df), predictions))
    /\ \E m \in JsonModeCandidates(predictions) :
          json_data' = Some(BuildJson(The(uploaded_file), predictions, m))
    /\ pc' = "tail"
    /\ UNCHANGED <<widgets, sidebar, shown, ingestVars, requestVars, results_df, overview,
                   is_numeric, value_counts>>

\* The rest of the script: the data preview and the footer (lines 617-728).
Finish ==
    /\ pc = "tail"
    /\ pc' = "done"
    /\ UNCHANGED <<widgets, sidebar, shown, ingestVars, requestVars, resultVars>>

Next ==
    \/ Upload
    \/ RemoveFile
    \/ ClickPredict
    \/ ChangeSetting
    \/ ClickDownload
    \/ HealthCheck
    \/ Welcome
    \/ Ingest
    \/ Validate
    \/ Gate
    \/ Post
    \/ HandleResponse
    \/ Overview
    \/ Visualization
    \/ Download
    \/ Finish

Spec == Init /\ [][Next]_vars

\* ------------------------------------------------------------------------
\* Validation on its own: a frame with any of a wide set of headers stands
\* at line 196 and the comprehensions of lines 196-197 run on it.
MaxCols == 2
Names == Range(expected_cols) \cup ExtraNames
ShortHeaders ==
    UNION {{c \in [1..n -> Names] : \A i, j \in 1..n : c[i] = c[j] => i = j} : n \in 0..MaxCols}
Reverse(s) == [i \in 1..Len(s) |-> s[Len(s) + 1 - i]]
LongHeaders ==
    LET hs == {HeaderOf(d, e, f) : d \in 0..Len(expected_cols), e \in ExtraNames \cup {""},
                                   f \in BOOLEAN}
    IN  hs \cup {Reverse(h) : h \in hs}
AnyHeaders == ShortHeaders \cup LongHeaders

InitValidate ==
    /\ \E c \in AnyHeaders, n \in 0..MaxRows :
          LET f == [name |-> "a.csv", utf8 |-> TRUE, parses |-> TRUE, columns |-> c, rows |-> n]
          IN  /\ uploaded_file = Some(f)
              /\ df = Some(ReadCsv(f))
    /\ clicked = FALSE
    /\ pc = "validate"
    /\ sidebar = "healthy_loaded"
    /\ shown = {}
    /\ missing_cols = <<>>
    /\ extra_cols = <<>>
    /\ button_shown = FALSE
    /\ posts = 0
    /\ response = None
    /\ predictions = <<>>
    /\ num_predictions = 0
    /\ error_msg = None
    /\ results_df = None
    /\ overview = None
    /\ is_numeric = None
    /\ value_counts = None
    /\ csv_string = None
    /\ json_data = None

NextValidate == Validate

SpecValidate == InitValidate /\ [][NextValidate]_vars

\* ========================================================================
\* The claims.
\* ========================================================================
\* The stages of a run that lie after the upload section.
PastIngest == pc \notin {"sidebar", "upload", "crashed"}
NothingProduced ==
    /\ predictions = <<>>
    /\ results_df = None
    /\ overview = None
    /\ is_numeric = None
    /\ value_counts = None
    /\ csv_string = None
    /\ json_data = None
ErrorsShown == shown \cap {"connection_error", "prediction_failed", "unexpected_error"}

\* C1: a run issues (or is about to issue) the POST only if the report it
\* computed itself, from the file uploaded now, has an empty missing list:
\* every required column is in the frame read from that file.  With a
\* non-empty missing list no request is sent.
C1_PostOnlyWhenNothingMissing ==
    /\ (pc = "post" \/ posts > 0) =>
          /\ IsSome(uploaded_file)
          /\ IsSome(df)
          /\ The(df).columns = The(uploaded_file).columns
          /\ missing_cols = <<>>
          /\ \A i \in 1..Len(expected_cols) : expected_cols[i] \in Range(The(uploaded_file).columns)
    /\ missing_cols # <<>> => (posts = 0 /\ pc # "post")

\* C1, its case: a request was sent for a file with all required columns
\* and an extra one.
C1_Witness ==
    /\ posts = 1
    /\ missing_cols = <<>>
    /\ extra_cols = <<"id">>
    /\ clicked

\* The elements of sub occur in s, without repetition, in the order of s.
InOrderOf(sub, s) ==
    \A i, j \in 1..Len(sub) : i < j => IndexOf(s, sub[i]) < IndexOf(s, sub[j])

\* C2: after validation, missing holds exactly the schema names absent from
\* the frame, in schema order, extra exactly the frame's names absent from
\* the schema, in the frame's order, and the frame is the one that was read.
C2_ValidateOrderPreserving ==
    pc = "gate" =>
        LET C == The(df).columns
        IN  /\ Len(expected_cols) = 11
            /\ Range(missing_cols) = Range(expected_cols) \ Range(C)
            /\ InOrderOf(missing_cols, expected_cols)
            /\ Range(extra_cols) = Range(C) \ Range(expected_cols)
            /\ InOrderOf(extra_cols, C)
            /\ df = Some([columns |-> The(uploaded_file).columns, rows |-> The(uploaded_file).rows])

\* C2, its case: a validated frame that has one required column between two
\* extra ones, which are not in alphabetical order.
C2_Witness ==
    /\ pc = "gate"
    /\ MaxCols >= 3 => The(df).columns = <<"Timestamp", "tenure", "id">>
    /\ MaxCols < 3 => The(df).columns = <<"Timestamp", "id">>
    /\ Len(missing_cols) >= 10
    /\ extra_cols = <<"Timestamp", "id">>

\* The response is a 200 whose predictions array has not the frame's length.
SizeMismatch ==
    /\ IsSome(response)
    /\ The(response).status = 200
    /\ The(response).body = "object"
    /\ The(response).has_predictions
    /\ IsSome(df)
    /\ Len(The(response).predictions) # The(df).rows

\* C3: a 200 response whose predictions array has not the frame's row count
\* ends the run in an error, with no success reported and no export built.
C3_SizeMismatchIsError ==
    (pc = "done" /\ SizeMismatch) =>
        /\ "success" \notin shown
        /\ ErrorsShown # {}
        /\ csv_string = None
        /\ json_data = None

\* The response is a 200 that is not JSON or lacks an expected field.
Malformed200 ==
    /\ IsSome(response)
    /\ The(response).status = 200
    /\ \/ The(response).body = "not_json"
       \/ /\ The(response).body = "object"
          /\ ~(The(response).has_predictions /\ The(response).has_num)

\* C4: a 200 response whose body is not JSON or lacks predictions or
\* num_predictions is reported as an error that is neither a connection
\* error nor a success, and neither summary nor export follows.
C4_MalformedResponseIsError ==
    (pc = "done" /\ Malformed200) =>
        /\ "success" \notin shown
        /\ "connection_error" \notin shown
        /\ ErrorsShown # {}
        /\ overview = None
        /\ value_counts = None
        /\ csv_string = None
        /\ json_data = None

\* C5: every response whose status is not 200 ends the run in "Prediction
\* failed", with the detail field as message when the body is a JSON object
\* that has one and the raw text otherwise, and nothing is produced.
C5_Non200IsPredictionFailed ==
    (pc = "done" /\ IsSome(response) /\ The(response).status # 200) =>
        /\ ErrorsShown = {"prediction_failed"}
        /\ error_msg = Some(IF The(response).body = "object" /\ The(response).has_detail
                             THEN "detail" ELSE "text")
        /\ "success" \notin shown
        /\ NothingProduced

\* The POST of this run raised instead of returning a response.
TransportFailed == posts > 0 /\ pc # "post" /\ IsNone(response)

\* C6: a run sends at most one POST; when the POST failed in transport (no
\* response came back) the run shows the connection error and nothing else,
\* produces no result, summary or export and keeps the frame and its report.
C6_TransportFailureLeavesNothing ==
    /\ posts <= 1
    /\ TransportFailed =>
          /\ pc \in {"tail", "done"}
          /\ ErrorsShown = {"connection_error"}
          /\ "success" \notin shown
          /\ NothingProduced
          /\ df = Some([columns |-> The(uploaded_file).columns, rows |-> The(uploaded_file).rows])
          /\ missing_cols = <<>>
          /\ Range(extra_cols) = Range(The(df).columns) \ Range(expected_cols)

\* C6, its case: the run of a click is over, its one POST failed.
C6_Witness ==
    /\ pc = "done"
    /\ clicked
    /\ posts = 1
    /\ IsNone(response)
    /\ "connection_error" \in shown

\* C7: whatever the health probe answers, the run goes on to the upload
\* section: no outcome of the probe ends the script.
C7_HealthNeverBlocks == pc # "crashed"

\* C8: bytes that are not UTF-8 but parse as Latin-1 give a frame and the
\* warning, and the run goes on to validation as it does for UTF-8; the
\* warning is shown in exactly the runs that took the fallback.
C8_Latin1Fallback ==
    /\ (PastIngest /\ IsSome(uploaded_file)) =>
          LET f == The(uploaded_file)
          IN  /\ (~f.utf8 /\ f.parses) =>
                    /\ df = Some([columns |-> f.columns, rows |-> f.rows])
                    /\ "latin1_warning" \in shown
                    /\ pc # "stopped"
              /\ "latin1_warning" \in shown <=> (~f.utf8 /\ f.parses)
    /\ ~(PastIngest /\ IsSome(uploaded_file)) => "latin1_warning" \notin shown

\* C8, its case: a Latin-1 file was read and validated, the button is there.
C8_Witness ==
    /\ pc = "tail"
    /\ ~The(uploaded_file).utf8
    /\ "latin1_warning" \in shown
    /\ button_shown

\* C9: a file that does not parse, on either path, ends the run at the
\* parser's message: no frame, no report, no button, no request, no result.
C9_ParseFailureHalts ==
    (PastIngest /\ IsSome(uploaded_file) /\ ~The(uploaded_file).parses) =>
        /\ pc = "stopped"
        /\ shown = {IF The(uploaded_file).utf8 THEN "parse_error" ELSE "encoding_error"}
        /\ df = None
        /\ missing_cols = <<>>
        /\ extra_cols = <<>>
        /\ ~button_shown
        /\ posts = 0
        /\ response = None
        /\ NothingProduced

\* C9, its case: the Latin-1 fallback failed to parse and the run stopped.
C9_Witness ==
    /\ pc = "stopped"
    /\ ~The(uploaded_file).utf8
    /\ shown = {"encoding_error"}

\* C10: the overview and the visualization agree on whether the predictions
\* are numeric, and they are numeric exactly when every value coerces to a
\* number.
C10_OneNumericDecision ==
    (IsSome(is_numeric) /\ predictions # <<>>) =>
        /\ The(is_numeric) = The(overview).numeric
        /\ The(is_numeric) <=> \A i \in 1..Len(predictions) : Coerces(predictions[i])

\* The table has one entry for every distinct value of preds, with its count
\* and its percentage of the total in hundredths, by descending count, equal
\* counts in the order of first occurrence.
FullTable(table, preds) ==
    /\ {table[i].value : i \in 1..Len(table)} = Range(preds)
    /\ \A i, j \in 1..Len(table) : table[i].value = table[j].value => i = j
    /\ \A i \in 1..Len(table) :
          /\ table[i].count = Count(preds, table[i].value)
          /\ 2 * Len(preds) * table[i].percentage <= 20000 * table[i].count + Len(preds)
          /\ 2 * Len(preds) * table[i].percentage > 20000 * table[i].count - Len(preds)
    /\ \A i, j \in 1..Len(table) : i < j =>
          \/ table[i].count > table[j].count
          \/ /\ table[i].count = table[j].count
             /\ IndexOf(preds, table[i].value) < IndexOf(preds, table[j].value)

\* C11: once the visualization tab has classified the predictions, numeric
\* or categorical, the full frequency table of the predictions exists.
C11_FrequencyTableInBothModes ==
    (IsSome(is_numeric) /\ pc # "visualization") =>
        /\ IsSome(value_counts)
        /\ FullTable(The(value_counts), predictions)

\* Of the most frequent values of preds, the one that occurs first.
FirstMostFrequent(preds) ==
    CHOOSE v \in MostFrequent(preds) :
        \A w \in MostFrequent(preds) : IndexOf(preds, v) <= IndexOf(preds, w)

\* C12: for categorical predictions the overview's "Most Common" and the
\* JSON export's most_common are both the most frequent value and, among
\* several, the one that occurs first in the array.
C12_ModeIsFirstEncountered ==
    (IsSome(json_data) /\ predictions # <<>> /\ ~The(overview).numeric) =>
        /\ The(overview).most_common = Some(FirstMostFrequent(predictions).text)
        /\ The(json_data).summary_statistics.most_common = FirstMostFrequent(predictions)

\* C13: the CSV export has the uploaded file's columns in their order, then
\* Prediction, then Timestamp; the cells of the original columns are the
\* dataset's, also for an original column named Prediction or Timestamp;
\* there is one row per dataset row, carrying the response's predictions.
\* Stated for datasets that have rows.
C13_CsvKeepsOriginalColumns ==
    (IsSome(csv_string) /\ The(uploaded_file).rows > 0) =>
        LET csv == The(csv_string)
            cols == The(uploaded_file).columns
            n == Len(cols)
        IN  /\ csv.header = cols \o <<"Prediction", "Timestamp">>
            /\ \A i \in 1..n : csv.cells[i] = "dataset"
            /\ csv.cells[n + 1] = "predictions"
            /\ csv.cells[n + 2] = "timestamp"
            /\ csv.rows = The(uploaded_file).rows
            /\ csv.predictions = The(response).predictions

\* C14: in the JSON export total_predictions is the length of the response's
\* predictions array, file_name the uploaded file's name, predictions the
\* response's array as it came, unique_values the number of distinct
\* predictions, and most_common is null exactly when the array is empty.
C14_JsonExportFields ==
    IsSome(json_data) =>
        LET json == The(json_data)
            sent == The(response).predictions
        IN  /\ json.metadata.total_predictions = Len(sent)
            /\ json.metadata.file_name = The(uploaded_file).name
            /\ json.predictions = sent
            /\ json.summary_statistics.unique_values = Cardinality({sent[i] : i \in 1..Len(sent)})
            /\ json.summary_statistics.most_common.kind = "null" <=> sent = <<>>
            /\ sent # <<>> => json.summary_statistics.most_common \in Range(sent)

\* C14, its case: an export was built from two different predictions.
C14_Witness ==
    /\ IsSome(json_data)
    /\ Len(The(response).predictions) = 2
    /\ The(json_data).summary_statistics.unique_values = 2
    /\ The(json_data).metadata.total_predictions = 2

\* Something of a prediction result is on the page.
ResultsVisible ==
    \/ IsSome(results_df)
    \/ IsSome(overview)
    \/ IsSome(is_numeric)
    \/ IsSome(value_counts)
    \/ IsSome(csv_string)
    \/ IsSome(json_data)

\* What is on the page came from the one POST of this run, sent for the file
\* that is uploaded now, and is joined to that file's rows.
FromThisRun ==
    /\ clicked
    /\ posts = 1
    /\ IsSome(response)
    /\ The(response).status = 200
    /\ predictions = The(response).predictions
    /\ IsSome(uploaded_file)
    /\ df = Some([columns |-> The(uploaded_file).columns, rows |-> The(uploaded_file).rows])
    /\ Len(predictions) = The(uploaded_file).rows
    /\ IsSome(results_df) => The(results_df).rows = The(uploaded_file).rows
    /\ IsSome(csv_string) =>
          /\ The(csv_string).predictions = The(response).predictions
          /\ The(csv_string).rows = The(uploaded_file).rows
    /\ IsSome(json_data) =>
          /\ The(json_data).predictions = The(response).predictions
          /\ The(json_data).metadata.file_name = The(uploaded_file).name

C16_ExportDeterministic ==
    (IsSome(csv_string) /\ IsSome(json_data)) =>
        /\ BuildCsv(The(df), predictions) = The(csv_string)
        /\ \A m \in JsonModeCandidates(predictions) :
              BuildJson(The(uploaded_file), predictions, m) = The(json_data)

\* The service answered 200 with a predictions array of the frame's length.
GoodResponse ==
    /\ IsSome(response)
    /\ The(response).status = 200
    /\ The(response).body = "object"
    /\ The(response).has_predictions
    /\ The(response).has_num
    /\ Len(The(response).predictions) = The(df).rows

\* C17: a run whose request was answered 200 with as many predictions as
\* the dataset has rows ends with the summary made, both exports built and
\* no "Unexpected error", for numeric and for categorical predictions.
\* Stated for datasets that have rows.
C17_GoodResponseReachesExport ==
    (pc = "done" /\ GoodResponse /\ The(df).rows > 0) =>
        /\ "unexpected_error" \notin shown
        /\ IsSome(overview)
        /\ IsSome(value_counts)
        /\ IsSome(csv_string)
        /\ IsSome(json_data)

====
